---- MODULE Spec2Model ----
(***************************************************************************)
(* Model of src/caching-fetch-library/cachingFetch.ts: the module-level    *)
(* cache (a Map), the React hook useCachingFetch (render, effect, cleanup, *)
(* promise callbacks), preloadCachingFetch, serializeCache,                *)
(* initializeCache and wipeCache.                                          *)
(*                                                                         *)
(* JavaScript values are records [t, n, s, v] tagged by t: "undefined",    *)
(* "null", "num" (n), "str" (s), "arr" (v: the items), "obj" (v: the       *)
(* members, each a "member" with the name in s and the value in v[1]) and  *)
(* "error" (s: message, n: status).  JSON text is a sequence of tokens.    *)
(***************************************************************************)
EXTENDS Integers, Sequences, FiniteSets, TLC

VARIABLES cache, state, phase, url, fetching, detached, preloading, conc, last

vars == <<cache, state, phase, url, fetching, detached, preloading, conc, last>>

(***************************************************************************)
(* Bounds of the model: the network operations outstanding at a time.      *)
(***************************************************************************)
MaxPending == 2

(***************************************************************************)
(* The callers.  Two of the components that call the hook: App always asks *)
(* for the same url, Person may be rendered with one url and later with    *)
(* another.  The server preloads the url of App.                           *)
(***************************************************************************)
Subs == {"App", "Person"}
Keys == {"/people", "/planets"}
Urls(s) == IF s = "App" THEN {"/people"} ELSE Keys
PreloadUrls == {"/people"}

(***************************************************************************)
(* JavaScript values.                                                      *)
(***************************************************************************)
Val(t, n, s, v) == [t |-> t, n |-> n, s |-> s, v |-> v]
Undefined == Val("undefined", 0, "", <<>>)
Null == Val("null", 0, "", <<>>)
Num(n) == Val("num", n, "", <<>>)
Str(s) == Val("str", 0, s, <<>>)
Arr(items) == Val("arr", 0, "", items)
Member(name, x) == Val("member", 0, name, <<x>>)
Obj(members) == Val("obj", 0, "", members)
Error(msg, status) == Val("error", status, msg, <<>>)

IsObject(x) == x.t \in {"arr", "obj", "error"}

\* Map key comparison (SameValueZero): primitives by value, objects by identity;
\* two objects that came out of a parse are never the same object.
SameValueZero(a, b) == a = b /\ ~IsObject(a)

(***************************************************************************)
(* JSON text: tokens.                                                      *)
(***************************************************************************)
Tok(k, s, n) == [k |-> k, s |-> s, n |-> n]
P(c) == Tok("punct", c, 0)
TNull == Tok("null", "null", 0)
TNum(n) == Tok("num", "", n)
TStr(s) == Tok("str", s, 0)

(***************************************************************************)
(* JSON.stringify of a value inside an array or object: undefined inside   *)
(* an array is written as null, a member whose value is undefined is left  *)
(* out.                                                                    *)
(***************************************************************************)
RECURSIVE Stringify(_), StringifyItems(_), StringifyMembers(_)
Stringify(x) ==
  CASE x.t = "undefined" -> <<TNull>>
    [] x.t = "null" -> <<TNull>>
    [] x.t = "num" -> <<TNum(x.n)>>
    [] x.t = "str" -> <<TStr(x.s)>>
    [] x.t = "arr" -> <<P("[")>> \o StringifyItems(x.v) \o <<P("]")>>
    [] x.t = "obj" -> <<P("{")>> \o StringifyMembers(x.v) \o <<P("}")>>
    [] OTHER -> <<P("{"), P("}")>>

StringifyItems(items) ==
  IF items = <<>> THEN <<>>
  ELSE IF Len(items) = 1 THEN Stringify(items[1])
  ELSE Stringify(items[1]) \o <<P(",")>> \o StringifyItems(Tail(items))

StringifyMembers(ms) ==
  IF ms = <<>> THEN <<>>
  ELSE IF ms[1].v[1].t = "undefined" THEN StringifyMembers(Tail(ms))
  ELSE LET rest == StringifyMembers(Tail(ms))
           one == <<TStr(ms[1].s), P(":")>> \o Stringify(ms[1].v[1])
       IN IF rest = <<>> THEN one ELSE one \o <<P(",")>> \o rest

(***************************************************************************)
(* JSON.parse: recursive descent over the tokens.  A parse step returns    *)
(* [ok, val, next]: next is the position after the value.                  *)
(***************************************************************************)
Bad == [ok |-> FALSE, val |-> Undefined, next |-> 0]
Good(x, n) == [ok |-> TRUE, val |-> x, next |-> n]
Is(toks, i, c) == i <= Len(toks) /\ toks[i] = P(c)

\* the member list keeps the last value of a repeated name, in the first position
PutMember(ms, name, x) ==
  IF \E j \in 1..Len(ms) : ms[j].s = name
  THEN [j \in 1..Len(ms) |-> IF ms[j].s = name THEN Member(name, x) ELSE ms[j]]
  ELSE Append(ms, Member(name, x))

RECURSIVE ParseValue(_, _), ParseItems(_, _, _), ParseMembers(_, _, _)
ParseValue(toks, i) ==
  IF i > Len(toks) THEN Bad
  ELSE LET tk == toks[i] IN
    CASE tk.k = "null" -> Good(Null, i + 1)
      [] tk.k = "num" -> Good(Num(tk.n), i + 1)
      [] tk.k = "str" -> Good(Str(tk.s), i + 1)
      [] tk = P("[") -> IF Is(toks, i + 1, "]") THEN Good(Arr(<<>>), i + 2)
                        ELSE ParseItems(toks, i + 1, <<>>)
      [] tk = P("{") -> IF Is(toks, i + 1, "}") THEN Good(Obj(<<>>), i + 2)
                        ELSE ParseMembers(toks, i + 1, <<>>)
      [] OTHER -> Bad

ParseItems(toks, i, acc) ==
  LET r == ParseValue(toks, i) IN
    IF ~r.ok THEN Bad
    ELSE IF Is(toks, r.next, ",") THEN ParseItems(toks, r.next + 1, Append(acc, r.val))
    ELSE IF Is(toks, r.next, "]") THEN Good(Arr(Append(acc, r.val)), r.next + 1)
    ELSE Bad

ParseMembers(toks, i, acc) ==
  IF ~(i + 1 <= Len(toks) /\ toks[i].k = "str" /\ toks[i + 1] = P(":")) THEN Bad
  ELSE LET r == ParseValue(toks, i + 2) IN
    IF ~r.ok THEN Bad
    ELSE LET ms == PutMember(acc, toks[i].s, r.val) IN
      IF Is(toks, r.next, ",") THEN ParseMembers(toks, r.next + 1, ms)
      ELSE IF Is(toks, r.next, "}") THEN Good(Obj(ms), r.next + 1)
      ELSE Bad

\* JSON.parse(text): [ok, val]; ~ok is a SyntaxError
JSONParse(toks) ==
  LET r == ParseValue(toks, 1) IN
    IF r.ok /\ r.next = Len(toks) + 1 THEN [ok |-> TRUE, val |-> r.val]
    ELSE [ok |-> FALSE, val |-> Undefined]

(***************************************************************************)
(* The Map behind the cache: a sequence of entries [k, v] in insertion     *)
(* order, no two entries with the same key.                                *)
(***************************************************************************)
MapIndex(m, key) ==
  IF \E j \in 1..Len(m) : SameValueZero(m[j].k, key)
  THEN CHOOSE j \in 1..Len(m) : SameValueZero(m[j].k, key)
  ELSE 0

MapHas(m, key) == MapIndex(m, key) # 0

MapGet(m, key) == IF MapHas(m, key) THEN m[MapIndex(m, key)].v ELSE Undefined

\* mutant of MapSet: an existing key is deleted and added again at the end
MapSetMovesToEnd(m, key, x) ==
  Append(SelectSeq(m, LAMBDA e : ~SameValueZero(e.k, key)), [k |-> key, v |-> x])

\* Map.prototype.set: an existing key keeps its position
MapSet(m, key, x) ==
  IF MapHas(m, key)
  THEN [m EXCEPT ![MapIndex(m, key)] = [k |-> key, v |-> x]]
  ELSE Append(m, [k |-> key, v |-> x])

\* property access item[n] (n = 0, 1) on an object that is an entry candidate
Prop(item, n) ==
  IF item.t = "arr"
  THEN IF n + 1 <= Len(item.v) THEN item.v[n + 1] ELSE Undefined
  ELSE IF item.t = "obj"
  THEN LET name == IF n = 0 THEN "0" ELSE "1" IN
         IF \E j \in 1..Len(item.v) : item.v[j].s = name
         THEN item.v[CHOOSE j \in 1..Len(item.v) : item.v[j].s = name].v[1]
         ELSE Undefined
  ELSE Undefined

\* new Map(iterable): [ok, map]; ~ok is a TypeError
RECURSIVE MapAddAll(_, _)
MapAddAll(m, items) ==
  IF items = <<>> THEN [ok |-> TRUE, map |-> m]
  ELSE IF ~IsObject(items[1]) THEN [ok |-> FALSE, map |-> <<>>]
  ELSE MapAddAll(MapSet(m, Prop(items[1], 0), Prop(items[1], 1)), Tail(items))

NewMap(x) ==
  CASE x.t \in {"undefined", "null"} -> [ok |-> TRUE, map |-> <<>>]
    [] x.t = "arr" -> MapAddAll(<<>>, x.v)
    [] x.t = "str" -> [ok |-> x.s = "", map |-> <<>>]
    [] OTHER -> [ok |-> FALSE, map |-> <<>>]

\* Array.from(cache.entries())
Entries(m) == Arr([j \in 1..Len(m) |-> Arr(<<m[j].k, m[j].v>>)])

(***************************************************************************)
(* createCache: the six methods of the cache manager.                      *)
(***************************************************************************)
Has(m, key) == MapHas(m, Str(key))
Get(m, key) == MapGet(m, Str(key))
Set(m, key, x) == MapSet(m, Str(key), x)
\* mutant of Clear: the first entry survives
ClearKeepsFirst(m) == IF m = <<>> THEN <<>> ELSE <<m[1]>>
Clear(m) == <<>>
Serialize(m) == Stringify(Entries(m))

\* mutant of Initialize: the decoded pairs are added to the entries the Map has
InitializeMerges(m, text) ==
  LET p == JSONParse(text) IN
    IF ~p.ok THEN [threw |-> "SyntaxError", map |-> m]
    ELSE LET n == NewMap(p.val) IN
      IF ~n.ok THEN [threw |-> "TypeError", map |-> m]
      ELSE [threw |-> "none", map |-> MapAddAll(m, Entries(n.map).v).map]

\* initialize: [threw, map]; the assignment to cache happens only when neither
\* JSON.parse nor the Map constructor threw
Initialize(m, text) ==
  LET p == JSONParse(text) IN
    IF ~p.ok THEN [threw |-> "SyntaxError", map |-> m]
    ELSE LET n == NewMap(p.val) IN
      IF ~n.ok THEN [threw |-> "TypeError", map |-> m]
      ELSE [threw |-> "none", map |-> n.map]

(***************************************************************************)
(* The fetch collaborator: what a network operation can settle with.       *)
(***************************************************************************)
Json(x) == Stringify(x)
People == Arr(<<Obj(<<Member("id", Num(1)), Member("name", Str("Ann"))>>)>>)

Responses ==
  { [net |-> "ok", status |-> 200, body |-> Json(People)],
    [net |-> "ok", status |-> 200, body |-> Json(Null)],
    [net |-> "ok", status |-> 500, body |-> <<>>],
    [net |-> "fail", status |-> 0, body |-> <<>>] }

ResponseOk(resp) == resp.status \in 200..299

\* fetch(url).then(response => ...): what the chain hands to the next callback,
\* [ok, data] or [~ok, err]
FetchJson(resp) ==
  IF resp.net = "fail"
  THEN [ok |-> FALSE, data |-> Null, err |-> Error("Failed to fetch", 0)]
  ELSE IF ~ResponseOk(resp)
  THEN [ok |-> FALSE, data |-> Null, err |-> Error("HTTP error! status: ", resp.status)]
  ELSE LET p == JSONParse(resp.body) IN
    IF p.ok THEN [ok |-> TRUE, data |-> p.val, err |-> Null]
    ELSE [ok |-> FALSE, data |-> Null, err |-> Error("SyntaxError", 0)]

(***************************************************************************)
(* State.                                                                  *)
(*   cache          the Map of cacheManager                                *)
(*   state[s]       the hook's React state of component s                  *)
(*   phase[s]       "unmounted", "rendered" (the hook was called with      *)
(*                  url[s], its effect has not run yet) or "committed"     *)
(*   url[s]         the url of the last render of s, "" when unmounted     *)
(*   fetching[s]    the url of the outstanding fetch started by the last   *)
(*                  effect run of s, whose closure has isMounted = true;   *)
(*                  "" if there is none                                    *)
(*   detached[k]    the number of outstanding fetches of k started by      *)
(*                  effects whose cleanup has run (isMounted = false)      *)
(*   preloading[k]  the number of outstanding fetches of k started by      *)
(*                  preloadCachingFetch                                    *)
(*   conc           history: the pairs {s, r} of components such that one  *)
(*                  started its current fetch while the other's current    *)
(*                  fetch of the same url was outstanding                  *)
(*   last           history: the last operation, the component and url it  *)
(*                  was for, what it did, and the error it handed to its   *)
(*                  caller                                                 *)
(***************************************************************************)
RECURSIVE Sum(_, _)
Sum(f, S) == IF S = {} THEN 0 ELSE LET x == CHOOSE y \in S : TRUE IN f[x] + Sum(f, S \ {x})

Fetchers(k) == {s \in Subs : fetching[s] = k}

\* the number of network operations outstanding for k, and in all
InFlight(k) == Cardinality(Fetchers(k)) + detached[k] + preloading[k]
Outstanding == Cardinality({s \in Subs : fetching[s] # ""}) + Sum(detached, Keys) + Sum(preloading, Keys)

Did(op, s, k, res, e) == [op |-> op, sub |-> s, key |-> k, res |-> res, err |-> e]

\* React.useState({isLoading: true, data: null, error: null})
InitialState == [isLoading |-> TRUE, data |-> Null, error |-> Null]
Loading == [isLoading |-> TRUE, data |-> Null, error |-> Null]
Resolved(x) == [isLoading |-> FALSE, data |-> x, error |-> Null]
\* mutant of Failed: the catch handler hands the message on as data
FailedWithData(e) == [isLoading |-> FALSE, data |-> Str(e.s), error |-> e]
Failed(e) == [isLoading |-> FALSE, data |-> Null, error |-> e]

Init ==
  /\ cache = <<>>
  /\ state = [s \in Subs |-> InitialState]
  /\ phase = [s \in Subs |-> "unmounted"]
  /\ url = [s \in Subs |-> ""]
  /\ fetching = [s \in Subs |-> ""]
  /\ detached = [k \in Keys |-> 0]
  /\ preloading = [k \in Keys |-> 0]
  /\ conc = {}
  /\ last = Did("init", "", "", "", Null)

\* the cleanup function of the effect of s: isMounted = false
CleanupFetching(s) == [fetching EXCEPT ![s] = ""]
\* mutant of CleanupDetached: the cleanup aborts the fetch of its effect
CleanupAborts(s) == detached
CleanupDetached(s) ==
  IF fetching[s] # "" THEN [detached EXCEPT ![fetching[s]] = @ + 1] ELSE detached

Forget(s) == {p \in conc : s \notin p}

\* first render of a component that calls useCachingFetch(k)
Mount(s, k) ==
  /\ phase[s] = "unmounted"
  /\ state' = [state EXCEPT ![s] = InitialState]
  /\ url' = [url EXCEPT ![s] = k]
  /\ phase' = [phase EXCEPT ![s] = "rendered"]
  /\ last' = Did("mount", s, k, "", Null)
  /\ UNCHANGED <<cache, fetching, detached, preloading, conc>>

\* a later render with another url: the hook returns the state it has, the
\* effect is scheduled because its dependency changed
Rerender(s, k) ==
  /\ phase[s] = "committed"
  /\ k # url[s]
  /\ url' = [url EXCEPT ![s] = k]
  /\ phase' = [phase EXCEPT ![s] = "rendered"]
  /\ last' = Did("render", s, k, "", Null)
  /\ UNCHANGED <<cache, state, fetching, detached, preloading, conc>>

\* mutant of RunEffect: the effect tests cacheManager.get(url) for truthiness
\* instead of cacheManager.has(url), so a stored null counts as absent
Truthy(x) == x.t \notin {"undefined", "null"}
RunEffectTruthy(s) ==
  /\ phase[s] = "rendered"
  /\ phase' = [phase EXCEPT ![s] = "committed"]
  /\ detached' = CleanupDetached(s)
  /\ IF Truthy(Get(cache, url[s]))
     THEN /\ state' = [state EXCEPT ![s] = Resolved(Get(cache, url[s]))]
          /\ fetching' = CleanupFetching(s)
          /\ conc' = Forget(s)
          /\ last' = Did("effect", s, url[s], "cached", Null)
     ELSE /\ Outstanding < MaxPending
          /\ state' = [state EXCEPT ![s] = Loading]
          /\ fetching' = [fetching EXCEPT ![s] = url[s]]
          /\ conc' = Forget(s) \cup {{s, r} : r \in Fetchers(url[s]) \ {s}}
          /\ last' = Did("effect", s, url[s], "fetch", Null)
  /\ UNCHANGED <<cache, url, preloading>>

\* the effect of useCachingFetch, after the cleanup of the previous effect
RunEffect(s) ==
  /\ phase[s] = "rendered"
  /\ phase' = [phase EXCEPT ![s] = "committed"]
  /\ detached' = CleanupDetached(s)
  /\ IF Has(cache, url[s])
     THEN /\ state' = [state EXCEPT ![s] = Resolved(Get(cache, url[s]))]
          /\ fetching' = CleanupFetching(s)
          /\ conc' = Forget(s)
          /\ last' = Did("effect", s, url[s], "cached", Null)
     ELSE /\ Outstanding < MaxPending
          /\ state' = [state EXCEPT ![s] = Loading]
          /\ fetching' = [fetching EXCEPT ![s] = url[s]]
          /\ conc' = Forget(s) \cup {{s, r} : r \in Fetchers(url[s]) \ {s}}
          /\ last' = Did("effect", s, url[s], "fetch", Null)
  /\ UNCHANGED <<cache, url, preloading>>

\* the component unmounts: React runs the cleanup and drops the state
Unmount(s) ==
  /\ phase[s] # "unmounted"
  /\ phase' = [phase EXCEPT ![s] = "unmounted"]
  /\ url' = [url EXCEPT ![s] = ""]
  /\ state' = [state EXCEPT ![s] = InitialState]
  /\ fetching' = CleanupFetching(s)
  /\ detached' = CleanupDetached(s)
  /\ conc' = Forget(s)
  /\ last' = Did("unmount", s, url[s], "", Null)
  /\ UNCHANGED <<cache, preloading>>

\* mutant of SettleHook: the catch handler stores null for the url
SettleHookCachesFailure(s, resp) ==
  /\ fetching[s] # ""
  /\ LET r == FetchJson(resp)
         k == fetching[s]
     IN /\ cache' = Set(cache, k, r.data)
        /\ state' = [state EXCEPT ![s] = IF r.ok THEN Resolved(r.data) ELSE Failed(r.err)]
        /\ last' = Did("settle", s, k, IF r.ok THEN "resolved" ELSE "failed", r.err)
  /\ fetching' = [fetching EXCEPT ![s] = ""]
  /\ UNCHANGED <<phase, url, detached, preloading, conc>>

\* mutant of SettleHook: the .then handler sets the state and leaves the Store
\* alone
SettleHookNoSet(s, resp) ==
  /\ fetching[s] # ""
  /\ LET r == FetchJson(resp)
         k == fetching[s]
     IN /\ cache' = cache
        /\ state' = [state EXCEPT ![s] = IF r.ok THEN Resolved(r.data) ELSE Failed(r.err)]
        /\ last' = Did("settle", s, k, IF r.ok THEN "resolved" ELSE "failed", r.err)
  /\ fetching' = [fetching EXCEPT ![s] = ""]
  /\ UNCHANGED <<phase, url, detached, preloading, conc>>

\* mutant of SettleHook: the chain has no catch handler, a failure sets nothing
SettleHookNoCatch(s, resp) ==
  /\ fetching[s] # ""
  /\ LET r == FetchJson(resp)
         k == fetching[s]
     IN /\ cache' = IF r.ok THEN Set(cache, k, r.data) ELSE cache
        /\ state' = [state EXCEPT ![s] = IF r.ok THEN Resolved(r.data) ELSE @]
        /\ last' = Did("settle", s, k, IF r.ok THEN "resolved" ELSE "failed", r.err)
  /\ fetching' = [fetching EXCEPT ![s] = ""]
  /\ UNCHANGED <<phase, url, detached, preloading, conc>>

\* the promise chain of an effect settles while isMounted is true:
\* .then(data => ...) or .catch(error => ...)
SettleHook(s, resp) ==
  /\ fetching[s] # ""
  /\ LET r == FetchJson(resp)
         k == fetching[s]
     IN /\ cache' = IF r.ok THEN Set(cache, k, r.data) ELSE cache
        /\ state' = [state EXCEPT ![s] = IF r.ok THEN Resolved(r.data) ELSE Failed(r.err)]
        /\ last' = Did("settle", s, k, IF r.ok THEN "resolved" ELSE "failed", r.err)
  /\ fetching' = [fetching EXCEPT ![s] = ""]
  /\ UNCHANGED <<phase, url, detached, preloading, conc>>

\* the promise chain of an effect settles after its cleanup ran (isMounted is
\* false): neither callback does anything
SettleDetached(k, resp) ==
  /\ detached[k] > 0
  /\ detached' = [detached EXCEPT ![k] = @ - 1]
  /\ last' = Did("settle", "", k, "ignored", Null)
  /\ UNCHANGED <<cache, state, phase, url, fetching, preloading, conc>>

\* preloadCachingFetch(k) up to its first await
Preload(k) ==
  /\ IF Has(cache, k)
     THEN /\ last' = Did("preload", "", k, "resolved", Null)
          /\ UNCHANGED preloading
     ELSE /\ Outstanding < MaxPending
          /\ preloading' = [preloading EXCEPT ![k] = @ + 1]
          /\ last' = Did("preload", "", k, "fetch", Null)
  /\ UNCHANGED <<cache, state, phase, url, fetching, detached, conc>>

\* mutant of SettlePreload: the failure is swallowed and the promise resolves
SettlePreloadSwallows(k, resp) ==
  /\ preloading[k] > 0
  /\ LET r == FetchJson(resp)
     IN /\ cache' = IF r.ok THEN Set(cache, k, r.data) ELSE cache
        /\ last' = Did("preloaded", "", k, "resolved", Null)
  /\ preloading' = [preloading EXCEPT ![k] = @ - 1]
  /\ UNCHANGED <<state, phase, url, fetching, detached, conc>>

\* preloadCachingFetch after the awaits: set and resolve, or reject
SettlePreload(k, resp) ==
  /\ preloading[k] > 0
  /\ LET r == FetchJson(resp)
     IN /\ cache' = IF r.ok THEN Set(cache, k, r.data) ELSE cache
        /\ last' = Did("preloaded", "", k, IF r.ok THEN "resolved" ELSE "rejected", r.err)
  /\ preloading' = [preloading EXCEPT ![k] = @ - 1]
  /\ UNCHANGED <<state, phase, url, fetching, detached, conc>>

\* the strings initializeCache is called with
Seed == <<[k |-> Str("/people"), v |-> People]>>
Texts ==
  { Serialize(cache),
    Serialize(Seed),
    <<TNull>>,
    <<P("{"), P("}")>>,
    <<P("["), TNum(1), P("]")>>,
    <<P("["), P("["), TStr("/people"), P(",")>>,
    <<P("["), P("["), TStr("/planets"), P("]"), P("]")>> }

\* mutant of InitializeCache: replacing the Store puts every component back to
\* the loading state
InitializeCacheResets(text) ==
  /\ LET r == Initialize(cache, text)
     IN /\ cache' = r.map
        /\ state' = IF r.threw = "none" THEN [s \in Subs |-> Loading] ELSE state
        /\ last' = Did("initialize", "", "", IF r.threw = "none" THEN "replaced" ELSE "threw", Null)
  /\ UNCHANGED <<phase, url, fetching, detached, preloading, conc>>

InitializeCache(text) ==
  /\ LET r == Initialize(cache, text)
     IN /\ cache' = r.map
        /\ last' = Did("initialize", "", "", IF r.threw = "none" THEN "replaced" ELSE "threw", Null)
  /\ UNCHANGED <<state, phase, url, fetching, detached, preloading, conc>>

\* mutant of WipeCache: the wipe also drops the outstanding fetches
WipeCacheCancels ==
  /\ cache' = Clear(cache)
  /\ fetching' = [s \in Subs |-> ""]
  /\ detached' = [k \in Keys |-> 0]
  /\ preloading' = [k \in Keys |-> 0]
  /\ last' = Did("wipe", "", "", "", Null)
  /\ UNCHANGED <<state, phase, url, conc>>

WipeCache ==
  /\ cache' = Clear(cache)
  /\ last' = Did("wipe", "", "", "", Null)
  /\ UNCHANGED <<state, phase, url, fetching, detached, preloading, conc>>

Next ==
  \/ \E s \in Subs : \E k \in Urls(s) : Mount(s, k)
  \/ \E s \in Subs : \E k \in Urls(s) : Rerender(s, k)
  \/ \E s \in Subs : RunEffect(s)
  \/ \E s \in Subs : Unmount(s)
  \/ \E s \in Subs, resp \in Responses : SettleHook(s, resp)
  \/ \E k \in Keys, resp \in Responses : SettleDetached(k, resp)
  \/ \E k \in PreloadUrls : Preload(k)
  \/ \E k \in PreloadUrls, resp \in Responses : SettlePreload(k, resp)
  \/ \E text \in Texts : InitializeCache(text)
  \/ WipeCache

Spec == Init /\ [][Next]_vars

\* the same program when every fetch a live effect started settles in the end:
\* the network answers or fails, and the promise chain runs its callbacks
FairSpec == Spec /\ \A s \in Subs : WF_vars(\E resp \in Responses : SettleHook(s, resp))

(***************************************************************************)
(* Properties.                                                             *)
(***************************************************************************)
IsNull(x) == x = Null
Mounted(s) == phase[s] # "unmounted"

\* C1: at most one network operation is outstanding per key at any instant,
\* whatever the interleaving of reactive fetches and preloads.
C1_AtMostOneInFlight == \A k \in Keys : InFlight(k) <= 1

\* C2: two components that requested the same key while a fetch for it was
\* outstanding hold the same settled state (same data, or same error) once both
\* have isLoading = false.
C2_SameSettlement ==
  \A p \in conc : \A s \in p, r \in p :
    (phase[s] = "committed" /\ phase[r] = "committed"
       /\ ~state[s].isLoading /\ ~state[r].isLoading)
    => state[s] = state[r]

\* C3: an effect or a preload started while the Store has the key starts no
\* network operation and leaves the Store alone; the component ends with
\* isLoading = false, error = null and the stored value as data, the preload
\* resolves.
C3_StorePresenceShortCircuits ==
  [][ /\ (last'.op = "effect" /\ Has(cache, last'.key))
         => /\ state'[last'.sub] = [isLoading |-> FALSE, data |-> Get(cache, last'.key), error |-> Null]
            /\ \A k \in Keys : InFlight(k)' = InFlight(k)
            /\ cache' = cache
      /\ (last'.op = "preload" /\ Has(cache, last'.key))
         => /\ last'.res = "resolved"
            /\ \A k \in Keys : InFlight(k)' = InFlight(k)
            /\ cache' = cache ]_vars

\* C3 witness: the preloaded value is in the Store and the effect of App took it
\* from there without a fetch.
C3_Witness ==
  /\ last = Did("effect", "App", "/people", "cached", Null)
  /\ state["App"] = Resolved(People)
  /\ InFlight("/people") = 0

\* C4: initializeCache(serializeCache()) on a fresh Store gives a Store with the
\* same has(K) and get(K) for every key K.
C4_RoundTrip ==
  LET r == Initialize(<<>>, Serialize(cache))
  IN /\ r.threw = "none"
     /\ \A k \in Keys : Has(r.map, k) = Has(cache, k) /\ Get(r.map, k) = Get(cache, k)

\* C5: a fetch that fails leaves a live component with isLoading = false,
\* data = null and the error, and leaves the Store as it was; an effect or a
\* preload for a key the Store does not have starts a new network operation.
C5_ErrorsNotCached ==
  [][ /\ (last'.op = "settle" /\ last'.res = "failed")
         => /\ ~state'[last'.sub].isLoading
            /\ IsNull(state'[last'.sub].data)
            /\ state'[last'.sub].error = last'.err
            /\ ~IsNull(last'.err)
            /\ cache' = cache
      /\ \A k \in Keys :
           (last'.op \in {"effect", "preload"} /\ last'.key = k /\ ~Has(cache, k))
           => InFlight(k)' = InFlight(k) + 1 ]_vars

\* C5 witness: App holds the error of its failed fetch of /people, the Store has
\* no entry for it, and Person has just started a new fetch of /people.
C5_Witness ==
  /\ phase["App"] = "committed" /\ fetching["App"] = ""
  /\ state["App"] = Failed(Error("HTTP error! status: ", 500))
  /\ ~Has(cache, "/people")
  /\ last = Did("effect", "Person", "/people", "fetch", Null)
  /\ InFlight("/people") = 1

\* C6: when the cleanup of an effect ran before its fetch settles, the settlement
\* changes no component's state, and a successful one still writes the value to
\* the Store.
C6_DetachedStillCaches ==
  [][ \A k \in Keys, resp \in Responses :
        (SettleDetached(k, resp) /\ FetchJson(resp).ok)
        => /\ state' = state
           /\ Has(cache', k)
           /\ Get(cache', k) = FetchJson(resp).data ]_vars

\* C7: the pair lists initialize is meant to accept
IsPairList(text) ==
  LET p == JSONParse(text)
  IN /\ p.ok
     /\ p.val.t = "arr"
     /\ \A j \in 1..Len(p.val.v) : p.val.v[j].t = "arr" /\ Len(p.val.v[j].v) = 2

\* C7: initializeCache on a string that is not an encoded list of key/value
\* pairs fails with an error and leaves the Store as it was.
C7_MalformedRejected ==
  [][ \A text \in Texts :
        (InitializeCache(text) /\ ~IsPairList(text))
        => /\ Initialize(cache, text).threw # "none"
           /\ last'.res = "threw"
           /\ cache' = cache ]_vars

\* C8: once isLoading is false, exactly one of data and error is non-null.
C8_ExactlyOne ==
  \A s \in Subs :
    (Mounted(s) /\ ~state[s].isLoading)
    => (IsNull(state[s].data) # IsNull(state[s].error))

\* C8 as amended: once isLoading is false, data and error are never both
\* non-null; a failed fetch leaves the error and data = null, a successful fetch
\* or a cache hit leaves error = null and the value as data, which is null when
\* the value is.
C8_AtMostOne ==
  /\ \A s \in Subs :
       (Mounted(s) /\ ~state[s].isLoading)
       => (IsNull(state[s].data) \/ IsNull(state[s].error))
  /\ (last.op = "settle" /\ last.res = "failed")
       => (~IsNull(state[last.sub].error) /\ IsNull(state[last.sub].data))
  /\ ((last.op = "settle" /\ last.res = "resolved") \/ (last.op = "effect" /\ last.res = "cached"))
       => (IsNull(state[last.sub].error) /\ state[last.sub].data = Get(cache, last.key))

\* C8 witness: the fetch of App settled with the body null.
C8_Witness ==
  /\ last = Did("settle", "App", "/people", "resolved", Null)
  /\ state["App"] = [isLoading |-> FALSE, data |-> Null, error |-> Null]

\* C9: a component that is first rendered while the Store has its key never
\* shows isLoading = true: the state returned by that render is the stored value.
C9_CachedOnFirstRender ==
  (last.op = "mount" /\ Has(cache, last.key))
  => (~state[last.sub].isLoading /\ state[last.sub].data = Get(cache, last.key))

\* C10: a preload of a key the Store does not have stays pending until its fetch
\* settles; it resolves with the fetched value in the Store, or rejects with the
\* error of the fetch and the Store as it was.
C10_PreloadSettles ==
  [][ /\ (last'.op = "preload" /\ ~Has(cache, last'.key))
         => (last'.res = "fetch" /\ preloading'[last'.key] = preloading[last'.key] + 1)
      /\ \A k \in PreloadUrls, resp \in Responses :
           (preloading'[k] < preloading[k] /\ SettlePreload(k, resp))
           => IF resp.net = "ok" /\ resp.status = 200
              THEN /\ last'.op = "preloaded" /\ last'.res = "resolved"
                   /\ Has(cache', k) /\ Get(cache', k) = JSONParse(resp.body).val
              ELSE /\ last'.op = "preloaded" /\ last'.res = "rejected"
                   /\ last'.err = (IF resp.net = "fail"
                                   THEN Error("Failed to fetch", 0)
                                   ELSE Error("HTTP error! status: ", resp.status))
                   /\ cache' = cache ]_vars

\* C10 witness: the preload of /people resolved and the Store holds the body.
C10_Witness ==
  /\ last = Did("preloaded", "", "/people", "resolved", Null)
  /\ Get(cache, "/people") = People

\* C11: right after wipeCache() the Store is empty: has(K) is false for every
\* key K, those that were present before the call included.
C11_WipeEmpties ==
  [][ WipeCache
      => /\ cache' = <<>>
         /\ \A k \in Keys : Has(cache, k) => ~Has(cache', k) ]_vars

\* C11 witness: App took /people from a fetch that filled the Store, and the
\* wipe that followed left the Store without it.
C11_Witness ==
  /\ last.op = "wipe"
  /\ phase["App"] = "committed" /\ state["App"] = Resolved(People)
  /\ ~Has(cache, "/people") /\ ~Has(cache, "/planets")

\* C12: a key the Store has never has a network operation outstanding for it.
C12_PresentNotInFlight == \A k \in Keys : Has(cache, k) => InFlight(k) = 0

\* C13: after a settlement wrote a value for a key, the settlement of another
\* fetch of that key that was already outstanding leaves the entry's value as it
\* is.
C13_NoStaleOverwrite ==
  [][ \A k \in Keys :
        ( /\ last.op \in {"settle", "preloaded"} /\ last.res = "resolved" /\ last.key = k
          /\ last'.op \in {"settle", "preloaded"} /\ last'.key = k )
        => Get(cache', k) = Get(cache, k) ]_vars

\* C14: when the settlement of a fetch leaves a component with isLoading = false
\* and the fetched value as data, the Store has the key with that value.
C14_StoreWrittenWithState ==
  [][ \A s \in Subs, resp \in Responses :
        (fetching[s] # "" /\ fetching'[s] = "" /\ last'.op = "settle"
           /\ SettleHook(s, resp) /\ FetchJson(resp).ok)
        => /\ state'[s] = Resolved(FetchJson(resp).data)
           /\ Has(cache', fetching[s])
           /\ Get(cache', fetching[s]) = state'[s].data ]_vars

\* C14 witness: the fetch of Person settled with a body, which Person and the
\* Store both hold.
C14_Witness ==
  /\ last = Did("settle", "Person", "/planets", "resolved", Null)
  /\ state["Person"] = Resolved(People)
  /\ Has(cache, "/planets") /\ Get(cache, "/planets") = People

\* C15: wipeCache leaves the outstanding fetches and the components' states as
\* they are; a fetch that settles after the wipe gives a live component its
\* result, and a successful one (of a component or of a preload) writes the
\* value to the Store, which has the key again.
C15_WipeKeepsFetches ==
  [][ /\ (last'.op = "wipe")
         => /\ fetching' = fetching /\ detached' = detached /\ preloading' = preloading
            /\ state' = state
      /\ \A s \in Subs, resp \in Responses :
           (last.op = "wipe" /\ fetching[s] # "" /\ fetching'[s] = "" /\ last'.op = "settle"
              /\ SettleHook(s, resp))
           => LET r == FetchJson(resp)
              IN IF r.ok
                 THEN /\ state'[s] = Resolved(r.data)
                      /\ Has(cache', fetching[s]) /\ Get(cache', fetching[s]) = r.data
                 ELSE state'[s] = Failed(r.err)
      /\ \A k \in PreloadUrls, resp \in Responses :
           (last.op = "wipe" /\ preloading'[k] < preloading[k]
              /\ SettlePreload(k, resp) /\ FetchJson(resp).ok)
           => (Has(cache', k) /\ Get(cache', k) = FetchJson(resp).data) ]_vars

\* C15 witness: the Store was wiped while the fetch of App and a preload of
\* /people were outstanding, and both still are.
C15_Witness ==
  /\ last.op = "wipe"
  /\ phase["App"] = "committed" /\ fetching["App"] = "/people" /\ state["App"] = Loading
  /\ preloading["/people"] = 1
  /\ cache = <<>>

\* C16: when the effect of a live component runs again for a new url while the
\* fetch of its previous url is outstanding, the component starts over for the
\* new url (the stored value with isLoading = false if the Store has it, else
\* isLoading = true and a fetch of the new url), the previous fetch stays
\* outstanding, and its later settlement changes no component's state.
C16_Resubscribe ==
  [][ /\ \A s \in Subs :
           (phase[s] = "rendered" /\ fetching[s] # "" /\ fetching[s] # url[s]
              /\ last'.op = "effect" /\ last'.sub = s)
           => /\ detached'[fetching[s]] = detached[fetching[s]] + 1
              /\ \A k \in Keys : k = fetching[s] => InFlight(k)' = InFlight(k)
              /\ IF Has(cache, url[s])
                 THEN state'[s] = Resolved(Get(cache, url[s])) /\ fetching'[s] = ""
                 ELSE state'[s] = Loading /\ fetching'[s] = url[s]
      /\ (last'.op = "settle" /\ last'.res = "ignored") => state' = state ]_vars

\* C16 witness: Person went from /people to /planets with its fetch of /people
\* outstanding; the Store has /planets, Person shows it, and the fetch of
\* /people is still outstanding.
C16_Witness ==
  /\ last = Did("effect", "Person", "/planets", "cached", Null)
  /\ phase["App"] = "unmounted"
  /\ state["Person"] = Resolved(Get(cache, "/planets")) /\ Has(cache, "/planets")
  /\ detached["/people"] = 1 /\ preloading["/people"] = 0
  /\ ~Has(cache, "/people")

\* C17: initialize with an encoded list of key/value pairs replaces the Store:
\* the Map it assigns has exactly the decoded keys, each with the value of its
\* last pair, and no key that only the Store before the call had.
C17_InitializeReplaces ==
  \A text \in Texts :
    LET p == JSONParse(text)
        pairs == p.val.v
        Of(k) == {j \in 1..Len(pairs) : pairs[j].v[1] = Str(k)}
        after == Initialize(cache, text)
    IN (/\ p.ok /\ p.val.t = "arr"
        /\ \A j \in 1..Len(pairs) : pairs[j].t = "arr" /\ Len(pairs[j].v) = 2)
       => /\ after.threw = "none"
          /\ \A k \in Keys :
               /\ Has(after.map, k) <=> Of(k) # {}
               /\ Of(k) # {}
                  => Get(after.map, k) = pairs[CHOOSE j \in Of(k) : \A i \in Of(k) : i <= j].v[2]
               /\ (Has(cache, k) /\ Of(k) = {}) => ~Has(after.map, k)
          /\ Len(after.map) = Cardinality({pairs[j].v[1] : j \in 1..Len(pairs)})

\* C17 witness: Person took /planets from the Store, then initializeCache was
\* called with the encoding of a Store that has /people only; the Store has
\* /people and not /planets.
C17_Witness ==
  /\ last = Did("initialize", "", "", "replaced", Null)
  /\ phase["Person"] = "committed" /\ url["Person"] = "/planets"
  /\ state["Person"] = Resolved(People)
  /\ cache = Seed
  /\ ~Has(cache, "/planets")

\* C18: a committed component is loading with its fetch outstanding, or has
\* isLoading = false with the resolved or the failed state of its url; once it
\* has isLoading = false its state stays as it is for as long as it keeps that
\* url: no wipeCache, initializeCache or settlement of another fetch changes
\* isLoading, data or error.
C18_SettledIsTerminal ==
  [][ \A s \in Subs :
        /\ (phase[s] = "committed" /\ ~state[s].isLoading
              /\ phase'[s] = "committed" /\ url'[s] = url[s])
           => state'[s] = state[s]
        /\ (phase'[s] = "committed")
           => \/ state'[s] = Loading /\ fetching'[s] = url'[s]
              \/ /\ ~state'[s].isLoading /\ fetching'[s] = ""
                 /\ (IsNull(state'[s].error) \/ IsNull(state'[s].data)) ]_vars

\* C18 witness: App holds the value of /people, the Store was emptied since,
\* and the fetch of another component has just failed.
C18_Witness ==
  /\ phase["App"] = "committed" /\ state["App"] = Resolved(People)
  /\ ~Has(cache, "/people")
  /\ last = Did("settle", "Person", "/people", "failed", Error("HTTP error! status: ", 500))

\* C19: the sequence of keys a serialized Store lists
EncodedKeys(text) ==
  LET pairs == JSONParse(text).val.v IN [j \in 1..Len(pairs) |-> pairs[j].v[1]]

\* C19: serializeCache() lists the keys in insertion order, and lists them in
\* the same order after initializeCache(serializeCache()); setting a key the
\* Store has leaves every key at its position.
C19_OrderPreserved ==
  LET before == Serialize(cache)
      r == Initialize(<<>>, before)
  IN /\ r.threw = "none"
     /\ EncodedKeys(before) = [j \in 1..Len(cache) |-> cache[j].k]
     /\ EncodedKeys(Serialize(r.map)) = EncodedKeys(before)
     /\ \A k \in Keys :
          Has(cache, k)
          => LET m == Set(cache, k, Null)
             IN [j \in 1..Len(m) |-> m[j].k] = [j \in 1..Len(cache) |-> cache[j].k]

\* C19 witness: the Store got /people, then /planets, and then a second fetch of
\* /people settled and set /people again; /people is still the first entry.
C19_Witness ==
  /\ last = Did("settle", "App", "/people", "resolved", Null)
  /\ Len(cache) = 2
  /\ cache[1].k = Str("/people") /\ cache[2].k = Str("/planets")
  /\ cache[1].v = Null /\ cache[2].v = People

\* C20: when every fetch settles in the end, a component whose effect left it
\* loading gets isLoading = false, unless it unmounts or is rendered with another
\* url before.
C20_LoadingEnds ==
  \A s \in Subs :
    (phase[s] = "committed" /\ state[s].isLoading)
    ~> (phase[s] # "committed" \/ ~state[s].isLoading)

\* C20 witness: the fetch of Person failed in transport and Person left the
\* loading state with the error.
C20_Witness ==
  /\ last = Did("settle", "Person", "/planets", "failed", Error("Failed to fetch", 0))
  /\ phase["Person"] = "committed" /\ url["Person"] = "/planets"
  /\ state["Person"] = Failed(Error("Failed to fetch", 0))

====
